---------------------------- MODULE Spec2Model ----------------------------
(***************************************************************************)
(* Invoice generator (app.py, ui.py): the billing summary computed by      *)
(* generate_filled_invoice, the validation and the net-payable computation *)
(* of main, and the amount-in-words converter num2words; the LineItems     *)
(* table and the checkbox shapes of the template that the function writes, *)
(* and the login of app.py.                                                *)
(*                                                                         *)
(* Python floats are IEEE-754 binary64 values.  A finite float is modelled *)
(* exactly: a sign and a magnitude, the magnitude being a natural number   *)
(* of units of 2^-FracBits written in limbs of LimbBits bits, least        *)
(* significant limb first, without leading zero limbs.  Every float        *)
(* operation rounds its exact result to Precision significant bits, ties   *)
(* to even, as the hardware does.                                          *)
(***************************************************************************)
EXTENDS Integers, Sequences, FiniteSets, TLC

\* significant bits of a Python float (binary64)
Precision == 53

\* bits per limb, and limbs below the binary point: the magnitudes are
\* counted in units of 2^-(LimbBits * FracLimbs); 0.01, the smallest
\* positive two-decimal amount, has its last significant bit at 2^-59
LimbBits == 14
FracLimbs == 5

Base == 2 ^ LimbBits
FracBits == LimbBits * FracLimbs

--------------------------------------------------------------------------
\* Naturals of any size as limb sequences (least significant limb first)

RECURSIVE nat_limbs(_)
nat_limbs(n) == IF n = 0 THEN <<>> ELSE <<n % Base>> \o nat_limbs(n \div Base)

RECURSIVE limbs_nat(_)
limbs_nat(b) == IF b = <<>> THEN 0 ELSE Head(b) + Base * limbs_nat(Tail(b))

RECURSIVE trim(_)
trim(b) ==
    IF b = <<>> \/ b[Len(b)] # 0 THEN b ELSE trim(SubSeq(b, 1, Len(b) - 1))

zeros(n) == [i \in 1..n |-> 0]

limb_at(b, i) == IF i >= 1 /\ i <= Len(b) THEN b[i] ELSE 0

RECURSIVE add_c(_, _, _)
add_c(a, b, c) ==
    IF a = <<>> /\ b = <<>>
    THEN IF c = 1 THEN <<1>> ELSE <<>>
    ELSE LET s == limb_at(a, 1) + limb_at(b, 1) + c
         IN  <<s % Base>> \o add_c(IF a = <<>> THEN a ELSE Tail(a),
                                   IF b = <<>> THEN b ELSE Tail(b),
                                   s \div Base)

limbs_add(a, b) == add_c(a, b, 0)

RECURSIVE sub_b(_, _, _)
sub_b(a, b, br) ==
    IF a = <<>>
    THEN <<>>
    ELSE LET d == Head(a) - limb_at(b, 1) - br
         IN  <<d % Base>> \o sub_b(Tail(a),
                                   IF b = <<>> THEN b ELSE Tail(b),
                                   IF d < 0 THEN 1 ELSE 0)

\* a - b for a >= b
limbs_sub(a, b) == trim(sub_b(a, b, 0))

RECURSIVE less_at(_, _, _)
less_at(a, b, i) ==
    IF i = 0 THEN FALSE
    ELSE IF a[i] # b[i] THEN a[i] < b[i]
    ELSE less_at(a, b, i - 1)

limbs_less(a, b) ==
    IF Len(a) # Len(b) THEN Len(a) < Len(b) ELSE less_at(a, b, Len(a))

RECURSIVE mul_c(_, _, _)
mul_c(a, k, c) ==
    IF a = <<>>
    THEN nat_limbs(c)
    ELSE LET p == Head(a) * k + c
         IN  <<p % Base>> \o mul_c(Tail(a), k, p \div Base)

\* a * k for a small natural k
limbs_mul(a, k) == IF k = 0 THEN <<>> ELSE mul_c(a, k, 0)

RECURSIVE mul_rows(_, _)
mul_rows(a, b) ==
    IF b = <<>>
    THEN <<>>
    ELSE LET rest == mul_rows(a, Tail(b))
         IN  limbs_add(limbs_mul(a, Head(b)),
                       IF rest = <<>> THEN <<>> ELSE <<0>> \o rest)

\* a * b
limbs_mul_limbs(a, b) == trim(mul_rows(a, b))

\* number of significant bits
sig_bits(b) ==
    IF b = <<>> THEN 0
    ELSE (Len(b) - 1) * LimbBits
         + (CHOOSE k \in 1..LimbBits : 2 ^ (k - 1) <= b[Len(b)] /\ b[Len(b)] < 2 ^ k)

\* bit i (bit 0 is the least significant)
bit_at(b, i) ==
    IF i < 0 THEN 0
    ELSE (limb_at(b, i \div LimbBits + 1) \div (2 ^ (i % LimbBits))) % 2

\* some bit below bit i is set
low_nonzero(b, i) ==
    \E l \in 1..Len(b) :
        \/ l - 1 < i \div LimbBits /\ b[l] # 0
        \/ l - 1 = i \div LimbBits /\ b[l] % (2 ^ (i % LimbBits)) # 0

\* b with the bits below bit i cleared
clear_low(b, i) ==
    [l \in 1..Len(b) |->
        IF l - 1 < i \div LimbBits THEN 0
        ELSE IF l - 1 = i \div LimbBits THEN b[l] - (b[l] % (2 ^ (i % LimbBits)))
        ELSE b[l]]

pow2_limbs(i) == zeros(i \div LimbBits) \o <<2 ^ (i % LimbBits)>>

\* round a magnitude to Precision significant bits, ties to even; sticky
\* says that the exact value has further non-zero bits below the last limb
round_sig(b, sticky) ==
    LET drop == sig_bits(b) - Precision
    IN  IF drop <= 0
        THEN b
        ELSE LET half == bit_at(b, drop - 1) = 1
                 rest == sticky \/ low_nonzero(b, drop - 1)
                 up   == half /\ (rest \/ bit_at(b, drop) = 1)
                 t    == clear_low(b, drop)
             IN  IF up THEN limbs_add(t, pow2_limbs(drop)) ELSE t

--------------------------------------------------------------------------
\* Python floats

NaN == [k |-> "nan", neg |-> FALSE, m |-> <<>>]
PosInf == [k |-> "inf", neg |-> FALSE, m |-> <<>>]
NegInf == [k |-> "inf", neg |-> TRUE, m |-> <<>>]
Fin(neg, m) == [k |-> "fin", neg |-> (neg /\ m # <<>>), m |-> m]
Zero == Fin(FALSE, <<>>)

\* float(n) for an integer n
int_float(n) ==
    Fin(n < 0,
        round_sig(zeros(IF n = 0 THEN 0 ELSE FracLimbs)
                  \o nat_limbs(IF n < 0 THEN -n ELSE n), FALSE))

\* x + y
float_add(x, y) ==
    IF x.k = "nan" \/ y.k = "nan" THEN NaN
    ELSE IF x.k = "inf" /\ y.k = "inf"
         THEN IF x.neg = y.neg THEN x ELSE NaN
    ELSE IF x.k = "inf" THEN x
    ELSE IF y.k = "inf" THEN y
    ELSE IF x.neg = y.neg
         THEN Fin(x.neg, round_sig(limbs_add(x.m, y.m), FALSE))
    ELSE IF limbs_less(x.m, y.m)
         THEN Fin(y.neg, round_sig(limbs_sub(y.m, x.m), FALSE))
    ELSE Fin(x.neg, round_sig(limbs_sub(x.m, y.m), FALSE))

float_neg(x) ==
    IF x.k = "nan" THEN x
    ELSE [x EXCEPT !.neg = (~x.neg /\ (x.k = "inf" \/ x.m # <<>>))]

\* the operands of the subtraction exchanged
float_sub_swapped(x, y) == float_add(y, float_neg(x))

\* x - y
float_sub(x, y) == float_add(x, float_neg(y))

\* x < y  (every comparison with NaN is false)
float_less(x, y) ==
    IF x.k = "nan" \/ y.k = "nan" THEN FALSE
    ELSE IF x.k = "inf" THEN x.neg /\ ~(y.k = "inf" /\ y.neg)
    ELSE IF y.k = "inf" THEN ~y.neg
    ELSE IF x.neg # y.neg THEN x.neg
    ELSE IF x.neg THEN limbs_less(y.m, x.m)
    ELSE limbs_less(x.m, y.m)

\* the limbs of (r * Base^e) / d below the binary point, and whether a
\* remainder is left: long division, one limb per step
RECURSIVE div_steps(_, _, _)
div_steps(r, e, d) ==
    IF e = 0
    THEN [q |-> <<>>, sticky |-> (r # 0)]
    ELSE LET t    == r * Base
             rest == div_steps(t % d, e - 1, d)
         IN  [q |-> rest.q \o <<t \div d>>, sticky |-> rest.sticky]

\* the magnitude of the float nearest to n / d, for naturals n and d > 0:
\* the quotient is taken with one guard limb and then rounded
nat_div_float(n, d) ==
    LET fr == div_steps(n % d, FracLimbs + 1, d)
        q  == trim(fr.q \o nat_limbs(n \div d))
    IN  IF q = <<>> THEN <<>> ELSE Tail(round_sig(q, fr.sticky))

\* x * y
float_mul(x, y) ==
    IF x.k = "nan" \/ y.k = "nan" THEN NaN
    ELSE IF x.k = "inf" \/ y.k = "inf"
         THEN IF (x.k = "fin" /\ x.m = <<>>) \/ (y.k = "fin" /\ y.m = <<>>)
              THEN NaN
              ELSE [k |-> "inf", neg |-> (x.neg # y.neg), m |-> <<>>]
    ELSE LET p == limbs_mul_limbs(x.m, y.m)
             r == round_sig(p, FALSE)
         IN  Fin(x.neg # y.neg,
                 IF Len(r) <= FracLimbs THEN <<>>
                 ELSE SubSeq(r, FracLimbs + 1, Len(r)))

\* ties rounded up instead of to even
round_half_up(m) ==
    LET ip == IF Len(m) <= FracLimbs THEN 0
              ELSE limbs_nat(SubSeq(m, FracLimbs + 1, Len(m)))
    IN  IF bit_at(m, FracBits - 1) = 1 THEN ip + 1 ELSE ip

\* a magnitude rounded to the nearest whole number of units, ties to even
round_half_even(m) ==
    LET ip   == IF Len(m) <= FracLimbs THEN 0
                ELSE limbs_nat(SubSeq(m, FracLimbs + 1, Len(m)))
        half == bit_at(m, FracBits - 1) = 1
        rest == low_nonzero(m, FracBits - 1)
    IN  IF half /\ (rest \/ ip % 2 = 1) THEN ip + 1 ELSE ip

\* round(x): the nearest integer, ties to even; NaN and the infinities raise
round(x) ==
    IF x.k = "nan" THEN [raised |-> "ValueError", n |-> 0]
    ELSE IF x.k = "inf" THEN [raised |-> "OverflowError", n |-> 0]
    ELSE [raised |-> "",
          n |-> IF x.neg THEN 0 - round_half_even(x.m) ELSE round_half_even(x.m)]

--------------------------------------------------------------------------
\* Texts.  A text that reads as a number with two decimals is the record
\* Num(neg, cents): Num(FALSE, 150) is "1.50" and Num(TRUE, 100) is "-1.00".

Num(neg, cents) == [k |-> "num", neg |-> neg, cents |-> cents]
NanText == [k |-> "nan", neg |-> FALSE, cents |-> 0]
InfText == [k |-> "inf", neg |-> FALSE, cents |-> 0]
NegInfText == [k |-> "inf", neg |-> TRUE, cents |-> 0]
Blank == [k |-> "blank", neg |-> FALSE, cents |-> 0]
Words == [k |-> "words", neg |-> FALSE, cents |-> 0]

\* a number written with the prefix Rs: RupeeText(115) is "Rs 1.15"
RupeeText(cents) == [k |-> "rs", neg |-> FALSE, cents |-> cents]

\* the text of a whole number: IntText(3) is "3"
IntText(n) == [k |-> "int", neg |-> (n < 0), cents |-> 100 * (IF n < 0 THEN 0 - n ELSE n)]

\* the float nearest to cents / 100, kept for the amounts below 10.00
DecimalFloats == [c \in 0..999 |-> nat_div_float(c, 100)]

decimal_float(cents) ==
    IF cents \in DOMAIN DecimalFloats THEN DecimalFloats[cents]
    ELSE nat_div_float(cents, 100)

\* float(s): the float nearest to the number the text reads as; a text
\* that is no number raises ValueError (ok is FALSE)
float(s) ==
    IF s.k \in {"num", "int"} THEN [ok |-> TRUE, v |-> Fin(s.neg, decimal_float(s.cents))]
    ELSE IF s.k = "nan" THEN [ok |-> TRUE, v |-> NaN]
    ELSE IF s.k = "inf" THEN [ok |-> TRUE, v |-> IF s.neg THEN NegInf ELSE PosInf]
    ELSE [ok |-> FALSE, v |-> NaN]

\* f"{x:.2f}": the two-decimal text nearest to x, ties to even
format_2f(x) ==
    IF x.k = "nan" THEN NanText
    ELSE IF x.k = "inf" THEN (IF x.neg THEN NegInfText ELSE InfText)
    ELSE Num(x.neg, round_half_even(limbs_mul(x.m, 100)))

--------------------------------------------------------------------------
\* The amount-in-words converter num2words (module number_to_words), after
\* section 4.1 of the specification.  A decimal amount is a record: k is
\* "fin", "nan" or "inf", neg is amount < 0, I the digits of the integer part
\* (most significant first, no leading zero, <<>> for 0) and F the two
\* digits of the fractional part as a number in 0..99.

Amount(neg, I, F) == [k |-> "fin", neg |-> neg, I |-> I, F |-> F]

\* the integer part must be below 10^MaxIntegerDigits
MaxIntegerDigits == 17

UnitWords ==
    <<"One", "Two", "Three", "Four", "Five", "Six", "Seven", "Eight", "Nine",
      "Ten", "Eleven", "Twelve", "Thirteen", "Fourteen", "Fifteen",
      "Sixteen", "Seventeen", "Eighteen", "Nineteen">>

TensWords ==
    <<"Ten", "Twenty", "Thirty", "Forty", "Fifty", "Sixty", "Seventy",
      "Eighty", "Ninety">>

\* the scale word of the i-th two-digit group above the last three digits
ScaleWords ==
    <<"Thousand", "Lakh", "Crore", "Arab", "Kharab", "Neel", "Padma">>

RECURSIVE digits_nat(_)
digits_nat(d) ==
    IF d = <<>> THEN 0 ELSE 10 * digits_nat(SubSeq(d, 1, Len(d) - 1)) + d[Len(d)]

RECURSIVE nat_digits(_)
nat_digits(n) == IF n = 0 THEN <<>> ELSE nat_digits(n \div 10) \o <<n % 10>>

\* the last n digits of d (all of d when it is shorter), and the others
last_digits(d, n) == IF Len(d) <= n THEN d ELSE SubSeq(d, Len(d) - n + 1, Len(d))
front_digits(d, n) == IF Len(d) <= n THEN <<>> ELSE SubSeq(d, 1, Len(d) - n)

\* the 0-99 naming table; 0 has no name
name_0_99(n) ==
    IF n = 0 THEN <<>>
    ELSE IF n < 20 THEN <<UnitWords[n]>>
    ELSE <<TensWords[n \div 10]>>
         \o (IF n % 10 = 0 THEN <<>> ELSE <<UnitWords[n % 10]>>)

\* the last three digits: hundreds, then the 0-99 name of the rest
name_hundreds(n) ==
    (IF n \div 100 = 0 THEN <<>> ELSE <<UnitWords[n \div 100], "Hundred">>)
    \o name_0_99(n % 100)

\* the groups with a zero group named instead of skipped
RECURSIVE name_groups_with_zero(_, _)
name_groups_with_zero(d, i) ==
    IF d = <<>>
    THEN <<>>
    ELSE LET g == digits_nat(last_digits(d, 2))
         IN  name_groups_with_zero(front_digits(d, 2), i + 1)
             \o (IF g = 0 THEN <<"Zero">> ELSE name_0_99(g)) \o <<ScaleWords[i]>>

\* the two-digit groups of d, the i-th group last; a zero group is skipped
RECURSIVE name_groups(_, _)
name_groups(d, i) ==
    IF d = <<>>
    THEN <<>>
    ELSE LET g == digits_nat(last_digits(d, 2))
         IN  name_groups(front_digits(d, 2), i + 1)
             \o (IF g = 0 THEN <<>> ELSE name_0_99(g) \o <<ScaleWords[i]>>)

name_integer(d) ==
    name_groups(front_digits(d, 3), 1) \o name_hundreds(digits_nat(last_digits(d, 3)))

RECURSIVE join(_)
join(t) ==
    IF t = <<>> THEN ""
    ELSE IF Len(t) = 1 THEN t[1]
    ELSE t[1] \o " " \o join(Tail(t))

\* the integer part: its groups joined with single spaces
integer_phrase(d) == join(name_integer(d))

\* a fractional part that is never rendered
fraction_phrase_dropped(F) == ""

\* step 5: for F > 0 the literal " and " and the 0-99 naming of F
fraction_phrase(F) == IF F > 0 THEN " and " \o join(name_0_99(F)) ELSE ""

\* the phrase without the special case of zero
to_words_phrase_no_zero(a) == integer_phrase(a.I) \o fraction_phrase(a.F)

\* the phrase of an amount: steps 2 to 5
to_words_phrase(a) ==
    IF a.I = <<>> /\ a.F = 0
    THEN "Zero"
    ELSE integer_phrase(a.I) \o fraction_phrase(a.F)

\* only a negative amount is refused
invalid_amount_negative_only(a) == a.neg

\* the amount is negative or not finite
invalid_amount(a) == a.k # "fin" \/ a.neg

\* the ceiling one digit too low
unsupported_magnitude_low(a) == Len(a.I) >= MaxIntegerDigits

\* the integer part is at or above 10^MaxIntegerDigits
unsupported_magnitude(a) == Len(a.I) > MaxIntegerDigits

\* to_words(amount): the phrase, or the failure it raises
to_words(a) ==
    IF invalid_amount(a)
    THEN [raised |-> "InvalidAmount", phrase |-> ""]
    ELSE IF unsupported_magnitude(a)
    THEN [raised |-> "UnsupportedMagnitude", phrase |-> ""]
    ELSE [raised |-> "", phrase |-> to_words_phrase(a)]

\* the decimal amount a float stands for: integer part and fractional part
\* rounded to two digits
float_amount(x) ==
    IF x.k # "fin"
    THEN [k |-> x.k, neg |-> x.neg, I |-> <<>>, F |-> 0]
    ELSE IF x.m = <<>>
    THEN Amount(FALSE, <<>>, 0)
    ELSE LET ip == IF Len(x.m) <= FracLimbs THEN 0
                   ELSE limbs_nat(SubSeq(x.m, FracLimbs + 1, Len(x.m)))
             fr == trim(SubSeq(x.m, 1, IF Len(x.m) <= FracLimbs THEN Len(x.m) ELSE FracLimbs))
             c  == round_half_even(limbs_mul(fr, 100))
         IN  IF c = 100 THEN Amount(x.neg, nat_digits(ip + 1), 0)
             ELSE Amount(x.neg, nat_digits(ip), c)

\* num2words(x) as app.py calls it, with a float
num2words(x) == to_words(float_amount(x))

--------------------------------------------------------------------------
\* Rows of the form and their validation (main)

Scripts == {"app.py", "ui.py"}

\* a row of st.session_state.rows: the five texts, and the key the render
\* loop adds to the row ("Weight Unit" in app.py, "uuid" in ui.py; "" when
\* the row has no such key)
Row(no, desc, weight, rate, amount, unit, uuid) ==
    [No |-> no, Desc |-> desc, Weight |-> weight, Rate |-> rate,
     Amount |-> amount, WeightUnit |-> unit, uuid |-> uuid]

\* parse_number(val): float of the text, ValueError for an empty text
\* commas, "Rs" and the rupee sign are stripped first
parse_number(val) ==
    IF val.k = "blank" THEN [ok |-> FALSE, v |-> NaN]
    ELSE IF val.k = "rs" THEN float(Num(val.neg, val.cents))
    ELSE float(val)

\* the number of a text of the form: app.py reads it with parse_number,
\* ui.py with float
number(s, val) == IF s = "app.py" THEN parse_number(val) ELSE float(val)

\* int(x) of a float: truncation; NaN and the infinities raise
int(x) ==
    IF x.k # "fin" THEN [ok |-> FALSE, n |-> 0]
    ELSE LET ip == IF Len(x.m) <= FracLimbs THEN 0
                   ELSE limbs_nat(SubSeq(x.m, FracLimbs + 1, Len(x.m)))
         IN  [ok |-> TRUE, n |-> IF x.neg THEN 0 - ip ELSE ip]

\* the Amount the render loop of app.py stores in a row
auto_amount(weight_val, rate_val) ==
    LET w == float(weight_val)
        r == float(rate_val)
    IN  IF w.ok /\ r.ok THEN format_2f(float_mul(w.v, r.v)) ELSE Blank

\* the Amount stored, were a typed Amount kept
stored_amount_typed(typed, weight_val, rate_val) ==
    IF typed.k = "blank" THEN auto_amount(weight_val, rate_val) ELSE typed

\* amount_val = auto_amount: the Amount the render loop of app.py stores,
\* whatever is typed in the Amount input
stored_amount(typed, weight_val, rate_val) == auto_amount(weight_val, rate_val)

\* the row has nothing but blank values
is_blank(r) ==
    /\ \A f \in {"No", "Desc", "Weight", "Rate", "Amount"} : r[f].k = "blank"
    /\ r.WeightUnit = ""
    /\ r.uuid = ""

filtered(rs) == SelectSeq(rs, LAMBDA r : ~is_blank(r))

\* the amount a row is validated with: app.py computes a blank Amount from
\* Weight and Rate, ui.py reads the Amount text
row_amount(script, r) ==
    IF script = "app.py" /\ r.Amount.k = "blank"
    THEN LET w  == number(script, r.Weight)
             rt == number(script, r.Rate)
         IN  [ok |-> w.ok /\ rt.ok, v |-> float_mul(w.v, rt.v)]
    ELSE number(script, r.Amount)

number_errs(p, not_number, negative) ==
    IF ~p.ok THEN <<not_number>>
    ELSE IF float_less(p.v, Zero) THEN <<negative>>
    ELSE <<>>

\* the messages of one row
row_errs(script, r) ==
    LET no == number(script, r.No)
    IN  (IF no.ok /\ int(no.v).ok /\ int(no.v).n > 0
         THEN <<>> ELSE <<"No. must be a positive integer.">>)
        \o (IF r.Desc.k = "blank" THEN <<"Item Description cannot be empty.">> ELSE <<>>)
        \o number_errs(number(script, r.Weight),
                       "Weight must be a number (e.g. 1.25).",
                       "Weight must be non-negative.")
        \o number_errs(number(script, r.Rate),
                       "Rate must be a number (e.g. 45000).",
                       "Rate must be non-negative.")
        \o number_errs(row_amount(script, r),
                       "Amount must be a number.",
                       "Amount must be non-negative.")

\* the validated, re-formatted row
validated_row(script, r) ==
    Row(IntText(int(number(script, r.No).v).n),
        r.Desc,
        format_2f(number(script, r.Weight).v),
        format_2f(number(script, r.Rate).v),
        format_2f(row_amount(script, r).v),
        r.WeightUnit,
        "")

\* errors: the 1-based position and the messages of every failing row
RECURSIVE validation_errors(_, _, _)
validation_errors(script, rs, idx) ==
    IF idx > Len(rs)
    THEN <<>>
    ELSE (IF row_errs(script, rs[idx]) = <<>> THEN <<>>
          ELSE <<[row |-> idx, msgs |-> row_errs(script, rs[idx])]>>)
         \o validation_errors(script, rs, idx + 1)

validate(script, rs) ==
    [i \in 1..Len(rs) |-> validated_row(script, rs[i])]

\* validated.sort(key=lambda x: int(x["No."])): a stable sort
sort_key(r) == r.No.cents \div 100

\* the insertion, were a row put before the rows of the same No.
RECURSIVE insert_sorted_before_equal(_, _)
insert_sorted_before_equal(r, sorted) ==
    IF sorted = <<>> THEN <<r>>
    ELSE IF sort_key(r) <= sort_key(Head(sorted)) THEN <<r>> \o sorted
    ELSE <<Head(sorted)>> \o insert_sorted_before_equal(r, Tail(sorted))

RECURSIVE insert_sorted(_, _)
insert_sorted(r, sorted) ==
    IF sorted = <<>> THEN <<r>>
    ELSE IF sort_key(r) < sort_key(Head(sorted)) THEN <<r>> \o sorted
    ELSE <<Head(sorted)>> \o insert_sorted(r, Tail(sorted))

RECURSIVE sort(_)
sort(rs) ==
    IF rs = <<>> THEN <<>>
    ELSE insert_sorted(rs[Len(rs)], sort(SubSeq(rs, 1, Len(rs) - 1)))

--------------------------------------------------------------------------
\* The billing summary

\* the builds of Python: sum() adds floats from left to right up to 3.11
\* and with Neumaier's compensation from 3.12 on
Builds == {"plain", "compensated"}

\* a sum that has no value for an empty list
RECURSIVE sum_without_start(_)
sum_without_start(a) ==
    IF a = <<>> THEN NaN
    ELSE IF Len(a) = 1 THEN a[1]
    ELSE float_add(sum_without_start(SubSeq(a, 1, Len(a) - 1)), a[Len(a)])

\* sum(amounts), added from left to right
RECURSIVE plain_sum(_)
plain_sum(a) ==
    IF a = <<>> THEN Zero
    ELSE float_add(plain_sum(SubSeq(a, 1, Len(a) - 1)), a[Len(a)])

float_abs(x) == [x EXCEPT !.neg = FALSE]

\* sum(amounts) with compensation: the running sum s and the error c
RECURSIVE compensated_steps(_)
compensated_steps(a) ==
    IF Len(a) <= 1
    THEN [s |-> IF a = <<>> THEN Zero ELSE a[1], c |-> Zero]
    ELSE LET p == compensated_steps(SubSeq(a, 1, Len(a) - 1))
             v == a[Len(a)]
             t == float_add(p.s, v)
         IN  [s |-> t,
              c |-> float_add(p.c,
                      IF ~float_less(float_abs(p.s), float_abs(v))
                      THEN float_add(float_sub(p.s, t), v)
                      ELSE float_add(float_sub(v, t), p.s))]

compensated_sum(a) ==
    LET r == compensated_steps(a)
    IN  IF r.c.k = "fin" /\ r.c.m # <<>> THEN float_add(r.s, r.c) ELSE r.s

sum(b, a) == IF b = "plain" THEN plain_sum(a) ELSE compensated_sum(a)

\* pd.to_numeric(text, errors="coerce"), NaN replaced by 0.0
coerced_amount(text) ==
    LET amt == IF float(text).ok THEN float(text).v ELSE NaN
    IN  IF amt.k = "nan" THEN Zero ELSE amt

\* amounts, as generate_filled_invoice builds the list
coerced_amounts(rs) == [i \in 1..Len(rs) |-> coerced_amount(rs[i].Amount)]

\* the list, were it read from the Weight column
float_amounts_of_weights(rs) == [i \in 1..Len(rs) |-> float(rs[i].Weight).v]

\* amounts, as main builds the list
float_amounts(rs) == [i \in 1..Len(rs) |-> float(rs[i].Amount).v]

--------------------------------------------------------------------------
\* The shapes of the template that generate_filled_invoice writes

\* options of the Payment Method radio
PaymentMethods == {"Cash", "NEFT / IMPS", "UPI", "Cheque"}

\* the text of a ticked checkbox shape (a check mark)
Tick == "tick"

\* checkbox_names.get(payment_method): the shape of a method, "" for None
checkbox_name(method) ==
    CASE method = "Cash" -> "Cash Check"
      [] method = "NEFT / IMPS" -> "NEFT Check"
      [] method = "UPI" -> "UPI Check"
      [] method = "Cheque" -> "Cheque Check"
      [] OTHER -> ""

\* checkbox_names.values()
CheckboxShapes == {checkbox_name(m) : m \in PaymentMethods}

\* the checkbox loop, were the else branch missing
ticked_keeps_others(shapes, method) ==
    [n \in DOMAIN shapes |->
        IF n \in CheckboxShapes /\ n = checkbox_name(method) THEN Tick ELSE shapes[n]]

\* Handle Payment Method Checkboxes: the tick in the shape of the method,
\* "" in the other checkbox shapes
ticked(shapes, method) ==
    [n \in DOMAIN shapes |->
        IF n \in CheckboxShapes
        THEN (IF n = checkbox_name(method) THEN Tick ELSE "")
        ELSE shapes[n]]

\* the raise, were only line_table looked for
missing_table_line_only(t) == ~t.LineItems

\* line_table is None or summary_table is None
missing_table(t) == ~t.LineItems \/ ~t.BillingSummary

\* a row of the LineItems table: the texts of the five columns that are
\* written (WeightUnit is the unit in the text of the Weight cell) and Extra,
\* the text of the cells of any further column
Cells(no, desc, weight, rate, amount, unit, extra) ==
    [No |-> no, Desc |-> desc, Weight |-> weight, Rate |-> rate,
     Amount |-> amount, WeightUnit |-> unit, Extra |-> extra]

\* cell.text = "" in every column
EmptyCells == Cells(Blank, Blank, Blank, Blank, Blank, "", Blank)

\* the text written in the Amount cell: app.py formats float(value) with two
\* decimals and keeps the text if it is no number, ui.py writes the text
amount_cell(s, value) ==
    IF s = "app.py"
    THEN LET p == float(value) IN IF p.ok THEN format_2f(p.v) ELSE value
    ELSE value

\* the cells of target_row after row_data is written into it
written_cells(s, row_data, target_row) ==
    Cells(row_data.No, row_data.Desc, row_data.Weight, row_data.Rate,
          amount_cell(s, row_data.Amount), row_data.WeightUnit, target_row.Extra)

\* the table, were the clearing loop missing
clear_none(t) == t

\* Clear existing data rows (rows 1...end), leave row 0 intact; t[1] is row 0
clear(t) == [i \in 1..Len(t) |-> IF i = 1 THEN t[i] ELSE EmptyCells]

\* min(a, b) of Python
smaller(a, b) == IF a < b THEN a ELSE b

\* rows_to_fill = min(len(rows), available_data_rows)
rows_to_fill(t, rs) == smaller(Len(rs), Len(t) - 1)

\* Write each data row into rows 1...up to available_data_rows: rows[i]
\* goes to line_table.rows[i + 1], which is t[i + 2] counted from 1
write_rows(s, t, rs) ==
    [i \in 1..Len(t) |->
        IF i >= 2 /\ i - 1 <= rows_to_fill(t, rs)
        THEN written_cells(s, rs[i - 1], t[i])
        ELSE t[i]]

--------------------------------------------------------------------------
\* Bounds of the model

\* rows in the form
MaxRows == 3

\* the amounts typed, in hundredths: 0.00, 0.05, 0.50, 1.15, 2.30
AmountCents == {0, 5, 50, 115, 230}

\* the amounts 100.25, 50.50, 25.00 of the specification's example
ExampleCents == <<10025, 5050, 2500>>

AmountTexts ==
    {Num(FALSE, c) : c \in AmountCents} \cup {Num(TRUE, 100), NanText, InfText}

\* the texts of the rows: every sequence of up to MaxRows amounts, and the
\* example
AmountLists(min) ==
    UNION {[1..n -> AmountTexts] : n \in min..MaxRows}
    \cup {[i \in 1..3 |-> Num(FALSE, ExampleCents[i])]}

\* the Weight of the rows of app.py: 1.00, 1.15 and "Rs 1.15"; the text typed
\* in the Amount inputs: nothing or 9.99
WeightTexts == {Num(FALSE, 100), Num(FALSE, 115), RupeeText(115)}
TypedTexts == {Blank, Num(FALSE, 999)}

\* the Amount stored for every text typed, Weight and Rate of the model
StoredAmounts ==
    [t \in TypedTexts, w \in WeightTexts \cup {Blank},
     r \in AmountTexts \cup {Blank} \cup {Num(FALSE, ExampleCents[i]) : i \in 1..3} |->
        stored_amount(t, w, r)]

\* digits of the amounts given to the converter
MaxDigits == 7
DigitChoice == {0, 1, 2, 9}

\* one crore
ExampleDigits == <<1, 0, 0, 0, 0, 0, 0, 0>>

\* digits of the integer part of the amounts that have a fractional part,
\* and the fractional parts, in hundredths
MaxFracDigits == 3
FracChoice == {5, 19, 21, 50, 99}

\* data rows of the LineItems table of the templates
MaxTableRows == 2

\* the header row of the LineItems table, and a data row that the template
\* holds a text in every cell of
Header == Cells(Words, Words, Words, Words, Words, "", Words)
OldCells ==
    Cells(IntText(9), Words, Num(FALSE, 999), Num(FALSE, 999), Num(FALSE, 999),
          "gms", Words)

\* the checkbox shapes of a template: all empty, or the tick left in one
OldCheckboxes ==
    {[n \in CheckboxShapes |-> ""],
     [n \in CheckboxShapes |-> IF n = "UPI Check" THEN Tick ELSE ""]}

\* a template: whether the slide has the two tables, the rows of LineItems
\* and the texts of the checkbox shapes
Template(line, summary, table_rows, shapes) ==
    [LineItems |-> line, BillingSummary |-> summary,
     rows |-> IF line THEN table_rows ELSE <<>>, checkboxes |-> shapes]

\* the template of the sessions: room for every row of the form, empty
StandardTemplate ==
    Template(TRUE, TRUE, <<Header>> \o [i \in 1..MaxRows |-> EmptyCells],
             [n \in CheckboxShapes |-> ""])

\* templates with up to MaxTableRows data rows, empty or not, and templates
\* that lack a table
Templates ==
    {Template(TRUE, TRUE, <<Header>> \o d, c) :
        d \in UNION {[1..n -> {EmptyCells, OldCells}] : n \in 0..MaxTableRows},
        c \in OldCheckboxes}
    \cup {Template(p[1], p[2], StandardTemplate.rows, c) :
            p \in {<<TRUE, FALSE>>, <<FALSE, TRUE>>, <<FALSE, FALSE>>},
            c \in OldCheckboxes}

\* the PIN of the login, and the texts typed in the PIN input
CORRECT_PIN == "123456"
Pins == {"", "000000", "12345", CORRECT_PIN}


--------------------------------------------------------------------------
\* State

VARIABLES
    script,           \* the script that runs: app.py or ui.py
    build,            \* the build of Python that runs it
    entry,            \* "main": the Generate click; "call": a direct call of
                      \* generate_filled_invoice; "to_words": the converter
    pc,               \* the position in main / generate_filled_invoice
    rows,             \* st.session_state.rows
    amount_typed,     \* app.py: the text typed in the Amount inputs
    errors,           \* main: the validation errors
    validated,        \* main: the validated rows; the rows argument
    main_net,         \* main: net_payable (app.py)
    main_amount_in_words,
                      \* the caller's amount_in_words: what the text input
                      \* of main returns, the argument of the call
    amount_in_words,  \* generate_filled_invoice: the parameter and local
    amounts,          \* generate_filled_invoice: amounts
    subtotal,         \* generate_filled_invoice: subtotal
    rounded_total,    \* generate_filled_invoice: rounded_total
    rounding_value,   \* generate_filled_invoice: rounding_value
    net_payable,      \* generate_filled_invoice: net_payable
    calls,            \* the calls of num2words: the caller and the argument
    doc,              \* the texts written into the document
    raised,           \* the exception that ended the run, "" if none
    outcome,          \* what the user gets: "" while running
    amount,           \* to_words: the amount
    phrase,           \* to_words: the result
    authenticated,    \* app.py: st.session_state["authenticated"]
    pin,              \* app.py: the text of the PIN input
    payment_method,   \* app.py: the method selected; the argument of the call
    template,         \* the shapes of the first slide of the template
    line_table,       \* generate_filled_invoice: the rows of line_table
    checkboxes        \* generate_filled_invoice: the texts of the checkbox shapes

vars ==
    <<script, build, entry, pc, rows, amount_typed, errors, validated, main_net,
      main_amount_in_words, amount_in_words,
      amounts, subtotal, rounded_total, rounding_value, net_payable, calls,
      doc, raised, outcome, amount, phrase, authenticated, pin, payment_method,
      template, line_table, checkboxes>>

None == [k |-> "none", neg |-> FALSE, m |-> <<>>]
NoDoc == [subtotal |-> Blank, rounding |-> Blank, net |-> Blank, words |-> ""]
NoAmount == [k |-> "none", neg |-> FALSE, I |-> <<>>, F |-> 0]

\* the locals before main or generate_filled_invoice has run
Fresh ==
    /\ errors = <<>>
    /\ main_net = None
    /\ amounts = <<>>
    /\ subtotal = None
    /\ rounded_total = None
    /\ rounding_value = None
    /\ net_payable = None
    /\ calls = <<>>
    /\ doc = NoDoc
    /\ raised = ""
    /\ outcome = ""
    /\ phrase = ""
    /\ line_table = template.rows
    /\ checkboxes = template.checkboxes

\* the rows of a session of app.py: No. is the position of the row, and
\* Amount is what the render loop stored, given the Weight, the Rate and
\* the text typed in the Amount input
app_rows(weight, typed, rates) ==
    [i \in 1..Len(rates) |->
        Row(IntText(i), Words, weight, rates[i],
            StoredAmounts[typed, weight, rates[i]], "carats", "")]

\* the rows of a session of ui.py: every text is what the user typed
ui_rows(first_no, amts) ==
    [i \in 1..Len(amts) |->
        Row(IntText(IF i = 1 THEN first_no ELSE 1), Words, Num(FALSE, 100),
            Num(FALSE, 100), amts[i], "", "id")]

\* a row that was added and rendered but never typed into: app.py shows
\* the position as No. and stores the Weight Unit, ui.py stores the uuid
untouched_row(s, i) ==
    IF s = "app.py"
    THEN Row(IntText(i), Blank, Blank, Blank, StoredAmounts[Blank, Blank, Blank],
             "carats", "")
    ELSE Row(Blank, Blank, Blank, Blank, Blank, "", "id")

\* the forms at the click: filled rows, filled rows followed by an
\* untouched row and, in app.py, rows with another Weight or with a text
\* typed in the Amount input
forms(s) ==
    LET filled == IF s = "app.py"
                  THEN {app_rows(Num(FALSE, 100), Blank, a) : a \in AmountLists(1)}
                  ELSE {ui_rows(n, a) : n \in {1, 2}, a \in AmountLists(1)}
        short  == {a \in AmountLists(1) : Len(a) < MaxRows}
    IN  {[rows |-> rs, typed |-> Blank] : rs \in filled}
        \cup {[rows |-> <<untouched_row(s, 1)>>, typed |-> Blank]}
        \cup {[rows |-> Append(rs, untouched_row(s, Len(rs) + 1)), typed |-> Blank] :
                 rs \in {f \in filled : Len(f) < MaxRows}}
        \cup (IF s = "app.py"
              THEN {[rows |-> app_rows(w, t, a), typed |-> t] :
                       w \in WeightTexts, t \in TypedTexts, a \in short}
              ELSE {})

\* the user has filled the form and is about to click Generate Invoice
Init ==
    /\ script \in Scripts
    /\ build \in Builds
    /\ entry = "main"
    /\ pc = "form"
    /\ \E f \in forms(script) :
          /\ rows = f.rows
          /\ amount_typed = f.typed
    /\ validated = <<>>
    /\ main_amount_in_words = ""
    /\ amount_in_words = ""
    /\ amount = NoAmount
    /\ authenticated = (script = "app.py")
    /\ pin = ""
    /\ payment_method = IF script = "app.py" THEN "Cash" ELSE ""
    /\ template = StandardTemplate
    /\ Fresh

\* generate_filled_invoice is called with some rows
InitCall ==
    /\ script \in Scripts
    /\ build \in Builds
    /\ entry = "call"
    /\ pc = "generate"
    /\ rows = <<>>
    /\ amount_typed = Blank
    /\ validated \in {[i \in 1..Len(a) |->
                          Row(IntText(i), Words, Num(FALSE, 100), Num(FALSE, 100),
                              a[i], "", "")] : a \in AmountLists(0)}
    /\ main_amount_in_words \in {"", "Rupees Five Only."}
    /\ amount_in_words = main_amount_in_words
    /\ amount = NoAmount
    /\ authenticated = FALSE
    /\ pin = ""
    /\ payment_method = IF script = "app.py" THEN "Cash" ELSE ""
    /\ template = StandardTemplate
    /\ Fresh

--------------------------------------------------------------------------
\* main

\* an exception leaves the run: main reports what generate_filled_invoice
\* raises, nothing catches what main itself raises
Raise(exc, where) ==
    /\ raised' = exc
    /\ pc' = "done"
    /\ outcome' = IF entry = "call" THEN "raised"
                  ELSE IF where = "generate" THEN "generation_error"
                  ELSE "uncaught"

\* Generate Invoice is clicked: filter, validate, sort
ClickGenerate ==
    /\ pc = "form"
    /\ script = "app.py" => authenticated
    /\ LET fr == filtered(rows)
           es == validation_errors(script, fr, 1)
       IN  IF fr = <<>>
           THEN /\ outcome' = "no_data"
                /\ pc' = "done"
                /\ UNCHANGED <<errors, validated>>
           ELSE IF es # <<>>
           THEN /\ errors' = es
                /\ outcome' = "errors"
                /\ pc' = "done"
                /\ UNCHANGED validated
           ELSE /\ validated' = sort(validate(script, fr))
                /\ pc' = IF script = "app.py" THEN "main_net" ELSE "generate"
                /\ UNCHANGED <<errors, outcome>>
    /\ UNCHANGED <<script, build, entry, authenticated, pin, payment_method, template,
                   line_table, checkboxes, amount_typed, main_amount_in_words, rows, main_net, amount_in_words, amounts,
                   subtotal, rounded_total, rounding_value, net_payable,
                   calls, doc, raised, amount, phrase>>

\* app.py: main computes net_payable
MainNetPayable ==
    /\ pc = "main_net"
    /\ LET r == round(sum(build, float_amounts(validated)))
       IN  IF r.raised # ""
           THEN /\ Raise(r.raised, "main")
                /\ UNCHANGED main_net
           ELSE /\ main_net' = int_float(r.n)
                /\ pc' = "main_words"
                /\ UNCHANGED <<raised, outcome>>
    /\ UNCHANGED <<script, build, entry, authenticated, pin, payment_method, template,
                   line_table, checkboxes, amount_typed, main_amount_in_words, rows, errors, validated, amount_in_words,
                   amounts, subtotal, rounded_total, rounding_value,
                   net_payable, calls, doc, amount, phrase>>

\* app.py: main gets the amount in words and shows it in a text input; the
\* input is created in the run of the click and returns the value it is
\* given
MainWords ==
    /\ pc = "main_words"
    /\ calls' = Append(calls, [by |-> "main", arg |-> main_net])
    /\ LET w == num2words(main_net)
       IN  IF w.raised # ""
           THEN /\ Raise(w.raised, "main")
                /\ UNCHANGED <<main_amount_in_words, amount_in_words>>
           ELSE /\ main_amount_in_words' = "Rupees " \o w.phrase \o " Only."
                /\ amount_in_words' = main_amount_in_words'
                /\ pc' = "generate"
                /\ UNCHANGED <<raised, outcome>>
    /\ UNCHANGED <<script, build, entry, authenticated, pin, payment_method, template,
                   line_table, checkboxes, amount_typed, rows, errors, validated, main_net, amounts,
                   subtotal, rounded_total, rounding_value, net_payable, doc,
                   amount, phrase>>

--------------------------------------------------------------------------
\* The login of app.py

\* the forms of one row that the user of a session fills in
login_forms ==
    {[rows |-> app_rows(w, t, <<a>>), typed |-> t] :
        w \in WeightTexts, t \in TypedTexts, a \in AmountTexts}
    \cup {[rows |-> <<untouched_row("app.py", 1)>>, typed |-> Blank]}

\* a session of app.py starts: nothing is in st.session_state and main
\* shows the login
InitLogin ==
    /\ script = "app.py"
    /\ build \in Builds
    /\ entry = "main"
    /\ pc = "login"
    /\ rows = <<>>
    /\ amount_typed = Blank
    /\ validated = <<>>
    /\ main_amount_in_words = ""
    /\ amount_in_words = ""
    /\ amount = NoAmount
    /\ authenticated = FALSE
    /\ pin = ""
    /\ payment_method = ""
    /\ template = StandardTemplate
    /\ Fresh

\* the user types in the PIN input; the script runs again and shows the
\* login without a message
TypePin ==
    /\ pc = "login"
    /\ ~authenticated
    /\ \E p \in Pins :
          /\ p # pin
          /\ pin' = p
    /\ outcome' = ""
    /\ UNCHANGED <<script, build, entry, pc, authenticated, payment_method, template,
                   line_table, checkboxes, amount_typed, main_amount_in_words,
                   rows, errors, validated, main_net, amount_in_words, amounts,
                   subtotal, rounded_total, rounding_value, net_payable, calls,
                   doc, raised, amount, phrase>>

\* the rerun after a login: main goes on past the login, initialises the
\* payment method and the rows and renders the form
form_shown ==
    /\ pc' = "form"
    /\ payment_method' = "Cash"
    /\ rows' = <<untouched_row("app.py", 1)>>
    /\ outcome' = ""

\* the Login click, were the PIN not compared
ClickLogin_any_pin ==
    /\ pc = "login"
    /\ ~authenticated
    /\ authenticated' = TRUE
    /\ form_shown
    /\ UNCHANGED <<script, build, entry, pin, template, line_table, checkboxes,
                   amount_typed, main_amount_in_words, errors, validated,
                   main_net, amount_in_words, amounts, subtotal, rounded_total,
                   rounding_value, net_payable, calls, doc, raised, amount,
                   phrase>>

\* Login is clicked: with the correct PIN the flag is set and the script
\* runs again, otherwise main shows "Incorrect PIN" and returns
ClickLogin ==
    /\ pc = "login"
    /\ ~authenticated
    /\ IF pin = CORRECT_PIN
       THEN /\ authenticated' = TRUE
            /\ form_shown
       ELSE /\ outcome' = "incorrect_pin"
            /\ UNCHANGED <<authenticated, pc, payment_method, rows>>
    /\ UNCHANGED <<script, build, entry, pin, template, line_table, checkboxes,
                   amount_typed, main_amount_in_words, errors, validated,
                   main_net, amount_in_words, amounts, subtotal, rounded_total,
                   rounding_value, net_payable, calls, doc, raised, amount,
                   phrase>>

\* the user fills in the form that main renders after the login
EditForm ==
    /\ pc = "form"
    /\ authenticated
    /\ \E f \in login_forms :
          /\ f.rows # rows
          /\ rows' = f.rows
          /\ amount_typed' = f.typed
    /\ UNCHANGED <<script, build, entry, pc, authenticated, pin, payment_method,
                   template, line_table, checkboxes, main_amount_in_words,
                   errors, validated, main_net, amount_in_words, amounts,
                   subtotal, rounded_total, rounding_value, net_payable, calls,
                   doc, raised, outcome, amount, phrase>>

--------------------------------------------------------------------------
\* generate_filled_invoice

\* the texts, after the checkboxes (app.py): find the tables, clear the
\* data rows of LineItems and write the rows.  Without one of the tables
\* app.py raises and ui.py shows an error and stops the script
GenShapes ==
    /\ pc = "generate"
    /\ checkboxes' = IF script = "app.py" THEN ticked(checkboxes, payment_method)
                     ELSE checkboxes
    /\ IF missing_table(template)
       THEN /\ IF script = "app.py"
               THEN Raise("Exception", "generate")
               ELSE /\ outcome' = "stopped"
                    /\ pc' = "done"
                    /\ UNCHANGED raised
            /\ UNCHANGED line_table
       ELSE /\ line_table' = write_rows(script, clear(line_table), validated)
            /\ pc' = "summary"
            /\ UNCHANGED <<raised, outcome>>
    /\ UNCHANGED <<script, build, entry, authenticated, pin, payment_method, template,
                   amount_typed, main_amount_in_words, rows, errors, validated,
                   main_net, amount_in_words, amounts, subtotal, rounded_total,
                   rounding_value, net_payable, calls, doc, amount, phrase>>

\* the summary, were it computed from the rows that have a table row only
GenSummary_written_rows ==
    /\ pc = "summary"
    /\ amounts' = coerced_amounts(SubSeq(validated, 1, rows_to_fill(line_table, validated)))
    /\ subtotal' = sum(build, amounts')
    /\ LET r == round(subtotal')
       IN  IF r.raised # ""
           THEN /\ Raise(r.raised, "generate")
                /\ UNCHANGED <<rounded_total, rounding_value, net_payable>>
           ELSE /\ rounded_total' = int_float(r.n)
                /\ rounding_value' = float_sub(rounded_total', subtotal')
                /\ net_payable' = rounded_total'
                /\ pc' = IF script = "app.py" THEN "gen_words" ELSE "fill"
                /\ UNCHANGED <<raised, outcome>>
    /\ UNCHANGED <<script, build, entry, authenticated, pin, payment_method, template,
                   line_table, checkboxes, amount_typed, main_amount_in_words, rows, errors, validated, main_net,
                   amount_in_words, calls, doc, amount, phrase>>

\* Compute Subtotal, Rounding, Net Payable
GenSummary ==
    /\ pc = "summary"
    /\ amounts' = coerced_amounts(validated)
    /\ subtotal' = sum(build, amounts')
    /\ LET r == round(subtotal')
       IN  IF r.raised # ""
           THEN /\ Raise(r.raised, "generate")
                /\ UNCHANGED <<rounded_total, rounding_value, net_payable>>
           ELSE /\ rounded_total' = int_float(r.n)
                /\ rounding_value' = float_sub(rounded_total', subtotal')
                /\ net_payable' = rounded_total'
                /\ pc' = IF script = "app.py" THEN "gen_words" ELSE "fill"
                /\ UNCHANGED <<raised, outcome>>
    /\ UNCHANGED <<script, build, entry, authenticated, pin, payment_method, template,
                   line_table, checkboxes, amount_typed, main_amount_in_words, rows, errors, validated, main_net,
                   amount_in_words, calls, doc, amount, phrase>>

\* Get amount in words, were the argument of the call kept
GenWords_keeps_argument ==
    /\ pc = "gen_words"
    /\ pc' = "fill"
    /\ UNCHANGED <<script, build, entry, authenticated, pin, payment_method, template,
                   line_table, checkboxes, amount_typed, main_amount_in_words, rows, errors,
                   validated, main_net, amount_in_words, amounts, subtotal,
                   rounded_total, rounding_value, net_payable, calls, doc,
                   raised, outcome, amount, phrase>>

\* app.py: Get amount in words
GenWords ==
    /\ pc = "gen_words"
    /\ calls' = Append(calls, [by |-> "generate_filled_invoice", arg |-> net_payable])
    /\ LET w == num2words(net_payable)
       IN  IF w.raised # ""
           THEN /\ Raise(w.raised, "generate")
                /\ UNCHANGED amount_in_words
           ELSE /\ amount_in_words' = "Rupees " \o w.phrase \o " Only."
                /\ pc' = "fill"
                /\ UNCHANGED <<raised, outcome>>
    /\ UNCHANGED <<script, build, entry, authenticated, pin, payment_method, template,
                   line_table, checkboxes, amount_typed, main_amount_in_words, rows, errors, validated, main_net, amounts,
                   subtotal, rounded_total, rounding_value, net_payable, doc,
                   amount, phrase>>

\* Fill BillingSummary table, write Amount In Words, save; main offers the
\* download
GenFill ==
    /\ pc = "fill"
    /\ doc' = [subtotal |-> format_2f(subtotal),
               rounding |-> format_2f(rounding_value),
               net      |-> format_2f(net_payable),
               words    |-> IF script = "app.py" THEN amount_in_words ELSE ""]
    /\ outcome' = IF entry = "call" THEN "returned" ELSE "document"
    /\ pc' = "done"
    /\ UNCHANGED <<script, build, entry, authenticated, pin, payment_method, template,
                   line_table, checkboxes, amount_typed, main_amount_in_words, rows, errors, validated, main_net,
                   amount_in_words, amounts, subtotal, rounded_total,
                   rounding_value, net_payable, calls, raised, amount, phrase>>

--------------------------------------------------------------------------
\* to_words

\* the digit sequences of up to n digits without a leading zero
digit_texts(n) ==
    {<<>>} \cup {e \in UNION {[1..k -> DigitChoice] : k \in 1..n} : e[1] # 0}

\* 10^MaxIntegerDigits - 1, 10^(MaxIntegerDigits - 1), 10^MaxIntegerDigits and
\* two amounts above it
CeilingDigits ==
    {[i \in 1..MaxIntegerDigits |-> 9],
     [i \in 1..MaxIntegerDigits |-> IF i = 1 THEN 1 ELSE 0],
     [i \in 1..MaxIntegerDigits + 1 |-> IF i = 1 THEN 1 ELSE 0],
     [i \in 1..MaxIntegerDigits + 1 |-> 9],
     [i \in 1..MaxIntegerDigits + 2 |-> IF i = 2 THEN 0 ELSE 2]}

NonFinite ==
    {[k |-> "nan", neg |-> FALSE, I |-> <<>>, F |-> 0],
     [k |-> "inf", neg |-> FALSE, I |-> <<>>, F |-> 0],
     [k |-> "inf", neg |-> TRUE, I |-> <<>>, F |-> 0]}

\* the amounts given to the converter: whole amounts, amounts with a
\* fractional part, amounts around the ceiling, negative amounts and the
\* values that are not finite
WordAmounts ==
    {Amount(FALSE, d, 0) : d \in digit_texts(MaxDigits) \cup {ExampleDigits}}
    \cup {Amount(FALSE, d, f) : d \in digit_texts(MaxFracDigits), f \in FracChoice}
    \cup {Amount(FALSE, d, f) : d \in CeilingDigits, f \in {0, 50}}
    \cup {Amount(TRUE, d, f) : d \in {<<>>, <<5>>, <<1, 0, 0>>}, f \in {5, 50}}
    \cup {Amount(TRUE, <<5>>, 0)}
    \cup NonFinite

InitWords ==
    /\ script = "app.py"
    /\ build = "plain"
    /\ entry = "to_words"
    /\ pc = "to_words"
    /\ rows = <<>>
    /\ amount_typed = Blank
    /\ validated = <<>>
    /\ main_amount_in_words = ""
    /\ amount_in_words = ""
    /\ amount \in WordAmounts
    /\ authenticated = FALSE
    /\ pin = ""
    /\ payment_method = ""
    /\ template = StandardTemplate
    /\ Fresh

ToWords ==
    /\ pc = "to_words"
    /\ LET w == to_words(amount)
       IN  /\ raised' = w.raised
           /\ phrase' = w.phrase
           /\ outcome' = IF w.raised = "" THEN "returned" ELSE "raised"
    /\ pc' = "done"
    /\ UNCHANGED <<script, build, entry, authenticated, pin, payment_method, template,
                   line_table, checkboxes, amount_typed, main_amount_in_words, rows, errors, validated, main_net,
                   amount_in_words, amounts, subtotal, rounded_total,
                   rounding_value, net_payable, calls, doc, amount>>

--------------------------------------------------------------------------
\* Specifications

Next ==
    \/ ClickGenerate
    \/ MainNetPayable
    \/ MainWords
    \/ GenShapes
    \/ GenSummary
    \/ GenWords
    \/ GenFill

\* a session of main
Spec == Init /\ [][Next]_vars

NextCall ==
    \/ GenShapes
    \/ GenSummary
    \/ GenWords
    \/ GenFill

\* generate_filled_invoice on its own
SpecCall == InitCall /\ [][NextCall]_vars

\* the forms of the sessions that vary the template: up to MaxRows rows of
\* amount 1.15 and 2.30 in turn
template_amounts(n) ==
    [i \in 1..n |-> Num(FALSE, IF i % 2 = 1 THEN 115 ELSE 230)]

template_forms(s) ==
    IF s = "app.py"
    THEN {app_rows(Num(FALSE, 100), Blank, template_amounts(n)) : n \in 1..MaxRows}
    ELSE {ui_rows(no, template_amounts(n)) : no \in {1, 2}, n \in 1..MaxRows}

\* the user is about to click Generate Invoice, with some template in place
InitTemplate ==
    /\ script \in Scripts
    /\ build \in Builds
    /\ entry = "main"
    /\ pc = "form"
    /\ rows \in template_forms(script)
    /\ amount_typed = Blank
    /\ validated = <<>>
    /\ main_amount_in_words = ""
    /\ amount_in_words = ""
    /\ amount = NoAmount
    /\ authenticated = (script = "app.py")
    /\ pin = ""
    /\ payment_method \in IF script = "app.py" THEN PaymentMethods ELSE {""}
    /\ template \in Templates
    /\ Fresh

\* a session of main over the templates
SpecTemplate == InitTemplate /\ [][Next]_vars

NextLogin ==
    \/ TypePin
    \/ ClickLogin
    \/ EditForm
    \/ Next

\* a session of app.py from the login on
SpecLogin == InitLogin /\ [][NextLogin]_vars

NextWords == ToWords

\* the converter on its own
SpecWords == InitWords /\ [][NextWords]_vars

--------------------------------------------------------------------------
\* Values and texts, for the properties

\* x + y without rounding
exact_add(x, y) ==
    IF x.neg = y.neg THEN Fin(x.neg, limbs_add(x.m, y.m))
    ELSE IF limbs_less(x.m, y.m) THEN Fin(y.neg, limbs_sub(y.m, x.m))
    ELSE Fin(x.neg, limbs_sub(x.m, y.m))

\* the value has no fractional part
is_whole(x) == x.k = "fin" /\ \A l \in 1..Len(x.m) : l <= FracLimbs => x.m[l] = 0

int_part(x) ==
    IF Len(x.m) <= FracLimbs THEN 0 ELSE limbs_nat(SubSeq(x.m, FracLimbs + 1, Len(x.m)))

\* the fractional part of |x| is exactly 0.5, is in (0, 0.5), is in [0, 0.5)
frac_is_half(x) == bit_at(x.m, FracBits - 1) = 1 /\ ~low_nonzero(x.m, FracBits - 1)
frac_below_half(x) == bit_at(x.m, FracBits - 1) = 0
frac_in_0_half(x) == bit_at(x.m, FracBits - 1) = 0 /\ low_nonzero(x.m, FracBits - 1)

\* the summary has been computed
summary_done == net_payable # None

\* every amount of the rows is a non-negative number
nonneg_finite(rs) ==
    \A i \in 1..Len(rs) : rs[i].Amount.k \in {"num", "int"} /\ ~rs[i].Amount.neg

\* the amount is negative or not finite
bad_amount(t) == t.k \in {"nan", "inf"} \/ (t.k \in {"num", "int"} /\ t.neg)

RECURSIVE total_cents(_)
total_cents(rs) ==
    IF rs = <<>> THEN 0 ELSE rs[1].Amount.cents + total_cents(Tail(rs))

\* the float of the decimal number cents / 100
decimal(cents) == Fin(FALSE, nat_div_float(cents, 100))

char(str, i) == SubSeq(str, i, i)

\* the length of the text before its first space
first_word_end(str) ==
    IF \A j \in 1..Len(str) : char(str, j) # " "
    THEN Len(str)
    ELSE CHOOSE e \in 0..(Len(str) - 1) :
             /\ char(str, e + 1) = " "
             /\ \A j \in 1..e : char(str, j) # " "

\* the text cut at every space: a leading, a trailing or a doubled space
\* gives an empty word
RECURSIVE split(_)
split(str) ==
    LET e == first_word_end(str)
    IN  IF e = Len(str) THEN <<str>>
        ELSE <<SubSeq(str, 1, e)>> \o split(SubSeq(str, e + 2, Len(str)))

\* the k-th digit from the right, 0 beyond the first digit
digit_from_right(d, k) == IF k <= Len(d) THEN d[Len(d) - k + 1] ELSE 0

\* the i-th two-digit group above the last three digits
group_value(d, i) ==
    10 * digit_from_right(d, 2 * i + 3) + digit_from_right(d, 2 * i + 2)

ScaleSet == {ScaleWords[i] : i \in 1..Len(ScaleWords)}

\* the scale words of the groups of d that are not zero, the highest first
scales_of(d) ==
    LET n   == Len(ScaleWords)
        sel == SelectSeq([k \in 1..n |-> n + 1 - k], LAMBDA i : group_value(d, i) # 0)
    IN  [k \in 1..Len(sel) |-> ScaleWords[sel[k]]]

\* The reference naming table, read backwards: the number a word names
word_value(w) ==
    IF \E i \in 1..Len(UnitWords) : UnitWords[i] = w
    THEN CHOOSE i \in 1..Len(UnitWords) : UnitWords[i] = w
    ELSE IF \E i \in 1..Len(TensWords) : TensWords[i] = w
    THEN 10 * (CHOOSE i \in 1..Len(TensWords) : TensWords[i] = w)
    ELSE 0 - 1

\* the number that one or two words of the 0-99 table name, -1 if none
parse_0_99(t) ==
    IF t = <<>> THEN 0
    ELSE IF Len(t) = 1 THEN word_value(t[1])
    ELSE IF /\ Len(t) = 2
            /\ word_value(t[1]) >= 20
            /\ word_value(t[2]) \in 1..9
    THEN word_value(t[1]) + word_value(t[2])
    ELSE 0 - 1

\* the number below 1000 that the words name, -1 if none
parse_hundreds(t) ==
    IF Len(t) >= 2 /\ t[2] = "Hundred"
    THEN IF word_value(t[1]) \in 1..9 /\ parse_0_99(SubSeq(t, 3, Len(t))) >= 0
         THEN 100 * word_value(t[1]) + parse_0_99(SubSeq(t, 3, Len(t)))
         ELSE 0 - 1
    ELSE parse_0_99(t)

scale_index(w) == CHOOSE i \in 1..Len(ScaleWords) : ScaleWords[i] = w

\* the groups that the words of an integer name: g[0] the last three
\* digits, g[i] the i-th two-digit group; cur holds the words read since
\* the last scale word
RECURSIVE parse_integer(_, _, _)
parse_integer(t, cur, g) ==
    IF t = <<>> THEN [g EXCEPT ![0] = parse_hundreds(cur)]
    ELSE IF Head(t) \in ScaleSet
    THEN parse_integer(Tail(t), <<>>,
                       [g EXCEPT ![scale_index(Head(t))] =
                           IF cur = <<>> \/ g[scale_index(Head(t))] # 0
                           THEN 0 - 1 ELSE parse_0_99(cur)])
    ELSE parse_integer(Tail(t), Append(cur, Head(t)), g)

\* the groups of the digits d
groups_of(d) ==
    [i \in 0..Len(ScaleWords) |->
        IF i = 0
        THEN 100 * digit_from_right(d, 3) + 10 * digit_from_right(d, 2)
             + digit_from_right(d, 1)
        ELSE group_value(d, i)]

\* the amount that a phrase names: the groups of the integer part and the
\* fractional part, the words after "and"
parse_words(str) ==
    LET t == split(str)
        k == IF \E j \in 1..Len(t) : t[j] = "and"
             THEN CHOOSE j \in 1..Len(t) : t[j] = "and"
             ELSE Len(t) + 1
        whole == SubSeq(t, 1, k - 1)
    IN  [groups |-> IF whole = <<"Zero">>
                    THEN [i \in 0..Len(ScaleWords) |-> 0]
                    ELSE parse_integer(whole, <<>>, [i \in 0..Len(ScaleWords) |-> 0]),
         F      |-> IF k > Len(t) THEN 0
                    ELSE IF k = Len(t) THEN 0 - 1
                    ELSE parse_0_99(SubSeq(t, k + 1, Len(t)))]

\* the characters of the digits
DigitChars == {"0", "1", "2", "3", "4", "5", "6", "7", "8", "9"}

--------------------------------------------------------------------------
\* Properties of the billing summary

\* C1: for non-negative finite amounts the summary satisfies
\* net_payable = subtotal + rounding exactly (as real numbers and as floats,
\* rounding = net_payable - subtotal), and net_payable is a whole number
C1_SummaryExact ==
    (summary_done /\ nonneg_finite(validated)) =>
        /\ exact_add(subtotal, rounding_value) = net_payable
        /\ float_add(subtotal, rounding_value) = net_payable
        /\ exact_add(net_payable, float_neg(subtotal)) = rounding_value
        /\ is_whole(net_payable)

\* a summary of several amounts whose subtotal is not whole
C1_Witness ==
    /\ pc = "done"
    /\ outcome = "returned"
    /\ nonneg_finite(validated)
    /\ Len(validated) >= 2
    /\ ~is_whole(subtotal)
    /\ rounding_value.m # <<>>

\* C2: net_payable is the subtotal rounded half up: a subtotal whose
\* fractional part is exactly .50 gives the next higher integer, and the
\* amounts 100.25, 50.50, 25.00 give 175.75, 176 and 0.25
C2_RoundHalfUp ==
    summary_done =>
        /\ (~subtotal.neg /\ frac_is_half(subtotal)) =>
              net_payable = int_float(int_part(subtotal) + 1)
        /\ (Len(validated) = 3
            /\ \A i \in 1..3 : validated[i].Amount = Num(FALSE, ExampleCents[i])) =>
              /\ subtotal = decimal(17575)
              /\ net_payable = int_float(176)
              /\ rounding_value = decimal(25)

C4_InvalidLineItem ==
    (pc = "done" /\ \E i \in 1..Len(rows) : bad_amount(rows[i].Amount)) =>
        /\ outcome = "errors"
        /\ \A i \in 1..Len(rows) :
              bad_amount(rows[i].Amount) => \E j \in 1..Len(errors) : errors[j].row = i
        /\ subtotal = None
        /\ doc = NoDoc

\* C5: the subtotal is the exact decimal sum of the amounts, without drift,
\* and a sum that ends in .50 is rounded as the exact tie it is
C5_ExactDecimalSum ==
    (summary_done /\ nonneg_finite(validated)) =>
        /\ subtotal = decimal(total_cents(validated))
        /\ total_cents(validated) % 100 = 50 =>
              net_payable = int_float(round_half_even(decimal(total_cents(validated)).m))

\* C6: the summary of no amounts is computed and has subtotal 0, rounding 0
\* and net_payable 0
C6_EmptySummary ==
    (validated = <<>> /\ pc \notin {"generate", "summary"}) =>
        /\ raised = ""
        /\ subtotal = Zero
        /\ rounding_value = Zero
        /\ net_payable = Zero
        /\ pc = "done" => outcome = "returned"

\* generate_filled_invoice has returned from a call without rows
C6_Witness ==
    /\ validated = <<>>
    /\ pc = "done"
    /\ outcome = "returned"
    /\ doc.net = Num(FALSE, 0)

\* C8: only the caller, main, gives net_payable to the converter; the
\* summary calculation in generate_filled_invoice does not call it
C8_CallerComposes ==
    \A i \in 1..Len(calls) :
        /\ calls[i].by = "main"
        /\ calls[i].arg = main_net

--------------------------------------------------------------------------
\* Properties of the converter

\* C9: to_words of the amount with integer part 0 and fractional part 0 is
\* "Zero"
C9_Zero ==
    (pc = "done" /\ amount = Amount(FALSE, <<>>, 0)) =>
        /\ raised = ""
        /\ phrase = "Zero"

\* the converter has returned from a call with 0
C9_Witness ==
    /\ entry = "to_words"
    /\ pc = "done"
    /\ amount = Amount(FALSE, <<>>, 0)
    /\ outcome = "returned"

\* C10: the groups are the last three digits and then two digits each, for
\* thousand, lakh, crore and beyond; the scale words of the phrase are those
\* of the groups that are not zero, the highest first; 100000
\* is "One Lakh", 10000000 "One Crore", 21 "Twenty One", 19 "Nineteen", and
\* no phrase has "Zero" followed by a scale word
C10_IndianGrouping ==
    (pc = "done" /\ entry = "to_words" /\ raised = "") =>
        /\ amount = Amount(FALSE, nat_digits(100000), 0) => phrase = "One Lakh"
        /\ amount = Amount(FALSE, nat_digits(10000000), 0) => phrase = "One Crore"
        /\ amount = Amount(FALSE, nat_digits(21), 0) => phrase = "Twenty One"
        /\ amount = Amount(FALSE, nat_digits(19), 0) => phrase = "Nineteen"
        /\ LET t == split(phrase)
           IN  /\ SelectSeq(t, LAMBDA w : w \in ScaleSet) = scales_of(amount.I)
               /\ (\E k \in 1..Len(t) : t[k] = "Hundred")
                     <=> (digit_from_right(amount.I, 3) # 0)
               /\ \A k \in 1..Len(t) :
                     t[k] = "Zero" => (k = Len(t) \/ t[k + 1] \notin ScaleSet)

\* a crore: a phrase of a number whose lower groups are all zero
C10_Witness ==
    /\ entry = "to_words"
    /\ pc = "done"
    /\ amount.I = nat_digits(10000000)
    /\ phrase = "One Crore"

\* C11: for every amount from 0 to below 10^17 the phrase has no digit
\* character, no double space and no space at its start or end, and the
\* reference naming table reads the integer and the fractional part of the
\* amount back from it
C11_RoundTrip ==
    (/\ pc = "done"
     /\ entry = "to_words"
     /\ amount.k = "fin"
     /\ ~amount.neg
     /\ Len(amount.I) <= MaxIntegerDigits) =>
        /\ raised = ""
        /\ phrase # ""
        /\ \A i \in 1..Len(phrase) : char(phrase, i) \notin DigitChars
        /\ \A i \in 1..(Len(phrase) - 1) :
              ~(char(phrase, i) = " " /\ char(phrase, i + 1) = " ")
        /\ char(phrase, 1) # " "
        /\ char(phrase, Len(phrase)) # " "
        /\ parse_words(phrase) = [groups |-> groups_of(amount.I), F |-> amount.F]

\* C12: a fractional part F > 0 is appended to the phrase of the integer
\* part as the literal " and " and the 0-99 naming of F, also when the
\* integer part is 0; for F = 0 nothing is appended; 100.50 is
\* "One Hundred and Fifty"
C12_Fraction ==
    (pc = "done" /\ entry = "to_words" /\ raised = "") =>
        LET t    == split(phrase)
            ands == {k \in 1..Len(t) : t[k] = "and"}
            none == [i \in 0..Len(ScaleWords) |-> 0]
        IN  /\ amount.F = 0 =>
                  /\ ands = {}
                  /\ amount.I # <<>> => parse_integer(t, <<>>, none) = groups_of(amount.I)
            /\ amount.F > 0 =>
                  /\ Cardinality(ands) = 1
                  /\ \A k \in ands :
                        /\ 2 <= k
                        /\ k < Len(t)
                        /\ parse_0_99(SubSeq(t, k + 1, Len(t))) = amount.F
                        /\ IF amount.I = <<>>
                           THEN SubSeq(t, 1, k - 1) = <<"">>
                           ELSE parse_integer(SubSeq(t, 1, k - 1), <<>>, none)
                                    = groups_of(amount.I)
            /\ amount = Amount(FALSE, <<1, 0, 0>>, 50) => phrase = "One Hundred and Fifty"
            /\ amount = Amount(FALSE, <<2, 1>>, 21) => phrase = "Twenty One and Twenty One"
            /\ amount = Amount(FALSE, <<1, 0, 0>>, 0) => phrase = "One Hundred"

\* the converter has returned the phrase of 100.50
C12_Witness ==
    /\ entry = "to_words"
    /\ pc = "done"
    /\ amount = Amount(FALSE, <<1, 0, 0>>, 50)
    /\ phrase = "One Hundred and Fifty"

\* C13: to_words fails with InvalidAmount for every negative amount and for
\* NaN, +infinity and -infinity, and returns no phrase for them
C13_InvalidAmount ==
    (pc = "done" /\ entry = "to_words" /\ (amount.k # "fin" \/ amount.neg)) =>
        /\ raised = "InvalidAmount"
        /\ outcome = "raised"
        /\ phrase = ""

\* the converter has refused NaN
C13_Witness ==
    /\ entry = "to_words"
    /\ pc = "done"
    /\ amount.k = "nan"
    /\ raised = "InvalidAmount"

\* C14: to_words fails with UnsupportedMagnitude exactly for the amounts
\* whose integer part has 18 digits or more (is at or above 10^17), and
\* returns no phrase for them
C14_UnsupportedMagnitude ==
    (pc = "done" /\ entry = "to_words" /\ amount.k = "fin" /\ ~amount.neg) =>
        /\ raised = "UnsupportedMagnitude" <=> Len(amount.I) >= 18
        /\ Len(amount.I) >= 18 => phrase = ""
        /\ Len(amount.I) < 18 => raised = "" /\ phrase # ""

\* the converter has refused 10^17
C14_Witness ==
    /\ entry = "to_words"
    /\ pc = "done"
    /\ amount = Amount(FALSE, <<1, 0, 0, 0, 0, 0, 0, 0, 0, 0, 0, 0, 0, 0, 0, 0, 0, 0>>, 0)
    /\ raised = "UnsupportedMagnitude"

--------------------------------------------------------------------------
\* Properties of the document

\* the text between "Rupees " and " Only.", "" when the text has another
\* shape
words_between(str) ==
    IF /\ Len(str) >= 13
       /\ SubSeq(str, 1, 7) = "Rupees "
       /\ SubSeq(str, Len(str) - 5, Len(str)) = " Only."
    THEN SubSeq(str, 8, Len(str) - 6)
    ELSE ""

C16_PassedWordsWritten ==
    (pc = "done" /\ script = "app.py" /\ outcome \in {"returned", "document"}) =>
        doc.words = main_amount_in_words

--------------------------------------------------------------------------
\* Properties of main

\* the user has entered nothing in the row
user_blank(s, r) ==
    /\ r.Desc.k = "blank"
    /\ r.Weight.k = "blank"
    /\ r.Rate.k = "blank"
    /\ s = "ui.py" => (r.No.k = "blank" /\ r.Amount.k = "blank")

\* the rows in which the user has entered something
entered(s, rs) == SelectSeq(rs, LAMBDA r : ~user_blank(s, r))

\* C17: the rows in which the user entered nothing are filtered out before
\* validation: they give no error and no line of the document, and when no
\* row remains the run stops with "No data entered" and no document
C17_BlankRowsFiltered ==
    (pc = "done" /\ entry = "main") =>
        /\ entered(script, rows) = <<>> =>
              outcome = "no_data" /\ errors = <<>> /\ doc = NoDoc
        /\ entered(script, rows) # <<>> =>
              /\ errors = validation_errors(script, entered(script, rows), 1)
              /\ outcome = "document" => Len(validated) = Len(entered(script, rows))

\* the text reads as a number that is >= 0
at_least_zero(p) ==
    /\ p.ok
    /\ \/ p.v.k = "fin" /\ (~p.v.neg \/ p.v.m = <<>>)
       \/ p.v.k = "inf" /\ ~p.v.neg

\* the row passes every check
passes(s, r) ==
    /\ number(s, r.No).ok
    /\ int(number(s, r.No).v).ok
    /\ int(number(s, r.No).v).n > 0
    /\ r.Desc.k # "blank"
    /\ at_least_zero(number(s, r.Weight))
    /\ at_least_zero(number(s, r.Rate))
    /\ at_least_zero(row_amount(s, r))

\* the positions, among the rows that are not blank, of the rows that fail
failing(s, rs) == {i \in 1..Len(rs) : ~passes(s, rs[i])}

\* C18: a document is generated only if every row that is not blank passes
\* every check (No. a positive integer, a description, Weight >= 0,
\* Rate >= 0, Amount >= 0); if a row fails, every failing row is reported
\* with its position and no document is generated
C18_AllOrNothing ==
    (pc = "done" /\ entry = "main") =>
        LET bad == failing(script, filtered(rows))
        IN  /\ outcome = "document" => bad = {}
            /\ bad # {} =>
                  /\ outcome = "errors"
                  /\ doc = NoDoc
                  /\ {errors[k].row : k \in 1..Len(errors)} = bad

\* C19: in app.py the net_payable that main computes for the words is the
\* net_payable that generate_filled_invoice computes from the same
\* validated rows
C19_SameNetPayable ==
    (/\ entry = "main"
     /\ script = "app.py"
     /\ main_net # None
     /\ pc \in {"gen_words", "fill", "done"}) =>
        net_payable = main_net

\* a document of several rows with a net payable that is not zero
C19_Witness ==
    /\ entry = "main"
    /\ script = "app.py"
    /\ outcome = "document"
    /\ Len(validated) >= 2
    /\ main_net # Zero
    /\ net_payable = main_net

\* C20: in app.py the Amount stored in a row at the click is computed from
\* its Weight and Rate whatever was typed in the Amount input, a blank
\* Amount is computed at validation, and at the end of the run the Amount
\* of every validated row is Weight times Rate with two decimals
C20_AmountIsWeightTimesRate ==
    (entry = "main" /\ script = "app.py") =>
        /\ pc = "form" =>
              \A i \in 1..Len(rows) :
                  rows[i].Amount = auto_amount(rows[i].Weight, rows[i].Rate)
        /\ (pc = "done" /\ validated # <<>>) =>
              /\ Len(validated) = Len(rows)
              /\ \A i \in 1..Len(rows) :
                    validated[i].Amount =
                        format_2f(float_mul(parse_number(rows[i].Weight).v,
                                            parse_number(rows[i].Rate).v))

\* 9.99 was typed as Amount of a row with Weight "Rs 1.15" and Rate 0.50:
\* the stored Amount is blank and the validated Amount is 0.57
C20_Witness ==
    /\ entry = "main"
    /\ script = "app.py"
    /\ amount_typed = Num(FALSE, 999)
    /\ Len(validated) >= 1
    /\ rows[1].Weight = RupeeText(115)
    /\ rows[1].Rate = Num(FALSE, 50)
    /\ rows[1].Amount = Blank
    /\ validated[1].Amount = Num(FALSE, 57)

--------------------------------------------------------------------------
\* The tables and the checkboxes

\* the permutations of 1..n
perms(n) == {p \in [1..n -> 1..n] : \A i, j \in 1..n : p[i] = p[j] => i = j}

\* int(x["No."]) of a validated row
no_of(r) == int(float(r.No).v).n

\* generate_filled_invoice has cleared and written the LineItems table
past_shapes ==
    \/ pc \in {"summary", "gen_words", "fill"}
    \/ pc = "done" /\ outcome \in {"document", "returned"}

\* table row i (row 0 is the header) holds the texts of the row r
holds_row(i, r) ==
    /\ i + 1 <= Len(line_table)
    /\ line_table[i + 1].No = r.No
    /\ line_table[i + 1].Desc = r.Desc
    /\ line_table[i + 1].Weight = r.Weight
    /\ line_table[i + 1].WeightUnit = r.WeightUnit
    /\ line_table[i + 1].Rate = r.Rate
    /\ line_table[i + 1].Amount = r.Amount

\* C21: the validated rows are in non-decreasing order of No., rows of the
\* same No. in the order they were entered, and row i of that list (counted
\* from 0) is written to table row i + 1, as far as the table has rows
C21_SortedByNo ==
    (entry = "main" /\ validated # <<>>) =>
        LET pre == validate(script, filtered(rows))
            n   == Len(validated)
        IN  /\ n = Len(pre)
            /\ \E p \in perms(n) :
                  /\ \A i \in 1..n : validated[i] = pre[p[i]]
                  /\ \A i, j \in 1..n :
                        i < j => /\ no_of(validated[i]) <= no_of(validated[j])
                                 /\ no_of(validated[i]) = no_of(validated[j])
                                       => p[i] < p[j]
            /\ past_shapes =>
                  \A i \in 1..n : i + 1 <= Len(line_table) => holds_row(i, validated[i])

\* three rows entered as No. 2, 1, 1 are written in the order 1, 1, 2 of
\* which the table has room for the first two
C21_Witness ==
    /\ entry = "main"
    /\ outcome = "document"
    /\ Len(rows) = 3
    /\ rows[1].No = IntText(2)
    /\ Len(line_table) = 3
    /\ holds_row(1, validate(script, rows)[2])
    /\ holds_row(2, validate(script, rows)[3])
    /\ validated[3] = validate(script, rows)[1]

\* C22: generate_filled_invoice leaves header row 0 of the LineItems table as
\* the template has it, and once it has returned every table row after the
\* rows written (rows len(rows) + 1 to the end) has the empty text in every
\* cell, whatever the template held there
C22_HeaderKeptRestCleared ==
    (entry = "main" /\ template.LineItems) =>
        /\ Len(line_table) = Len(template.rows)
        /\ line_table[1] = template.rows[1]
        /\ outcome = "document" =>
              \A i \in 1..Len(line_table) :
                  i > Len(validated) + 1 =>
                      /\ line_table[i].No = Blank
                      /\ line_table[i].Desc = Blank
                      /\ line_table[i].Weight = Blank
                      /\ line_table[i].WeightUnit = ""
                      /\ line_table[i].Rate = Blank
                      /\ line_table[i].Amount = Blank
                      /\ line_table[i].Extra = Blank

\* one row is written into a template that holds texts in two data rows
C22_Witness ==
    /\ entry = "main"
    /\ outcome = "document"
    /\ Len(validated) = 1
    /\ Len(template.rows) = 3
    /\ template.rows[2] = OldCells
    /\ template.rows[3] = OldCells
    /\ line_table[1] = Header
    /\ line_table[2].No = IntText(1)
    /\ line_table[3] = EmptyCells

\* the whole number nearest to cents / 100, a tie going to the even one
nearest_whole(cents) ==
    LET q == cents \div 100
        r == cents % 100
    IN  IF r > 50 \/ (r = 50 /\ q % 2 = 1) THEN q + 1 ELSE q

\* the text of the difference whole - cents / 100
difference_text(whole, cents) ==
    IF 100 * whole >= cents THEN Num(FALSE, 100 * whole - cents)
    ELSE Num(TRUE, cents - 100 * whole)

\* C23: with more validated rows than data rows in the LineItems table, the
\* first (table rows - 1) rows are written, the others are dropped and no
\* error is raised, and the subtotal, the rounding, the net payable and the
\* words are those of all the validated rows
C23_OverflowDropped ==
    (/\ entry = "main"
     /\ validated # <<>>
     /\ template.LineItems
     /\ template.BillingSummary
     /\ Len(validated) > Len(template.rows) - 1) =>
        LET total == total_cents(validated)
        IN  /\ pc = "done" => (outcome = "document" /\ raised = "")
            /\ past_shapes =>
                  /\ Len(line_table) = Len(template.rows)
                  /\ \A i \in 1..(Len(line_table) - 1) : holds_row(i, validated[i])
            /\ outcome = "document" =>
                  /\ doc.subtotal = Num(FALSE, total)
                  /\ doc.net = Num(FALSE, 100 * nearest_whole(total))
                  /\ doc.rounding = difference_text(nearest_whole(total), total)
                  /\ script = "app.py" =>
                        parse_words(words_between(doc.words))
                            = [groups |-> groups_of(nat_digits(nearest_whole(total))),
                               F      |-> 0]

\* three rows of 1.15, 2.30 and 1.15 and a table of one data row: the first
\* row is written and the summary is that of 4.60
C23_Witness ==
    /\ entry = "main"
    /\ script = "app.py"
    /\ outcome = "document"
    /\ Len(validated) = 3
    /\ Len(line_table) = 2
    /\ holds_row(1, validated[1])
    /\ doc.subtotal = Num(FALSE, 460)
    /\ doc.rounding = Num(FALSE, 40)
    /\ doc.net = Num(FALSE, 500)
    /\ doc.words = "Rupees Five Only."

\* the template lacks the LineItems or the BillingSummary table
lacks_table == ~template.LineItems \/ ~template.BillingSummary

\* the run of app.py has ended in the error that main reports, with no
\* table cell written, no summary computed and no document
ended_in_reported_error ==
    /\ raised = "Exception"
    /\ outcome = "generation_error"
    /\ line_table = template.rows
    /\ amounts = <<>>
    /\ subtotal = None
    /\ net_payable = None
    /\ doc = NoDoc

\* C24 as stated: with a template that lacks the LineItems or the
\* BillingSummary table, generate_filled_invoice of app.py raises before it
\* has written anything, main reports the error and there is no document
C24_MissingTable ==
    (entry = "main" /\ script = "app.py" /\ lacks_table /\ pc = "done") =>
        /\ ended_in_reported_error
        /\ checkboxes = template.checkboxes

\* C24 as amended: with a template that lacks the LineItems or the
\* BillingSummary table, generate_filled_invoice of app.py raises before it
\* has written any table cell, having already set the checkbox shapes of
\* the presentation in memory, main reports the error and there is no
\* document
C24_MissingTableRaises ==
    (entry = "main" /\ script = "app.py" /\ lacks_table /\ pc = "done") =>
        /\ ended_in_reported_error
        /\ \A n \in CheckboxShapes :
              checkboxes[n] = Tick <=> n = checkbox_name(payment_method)

\* a template without the BillingSummary table whose Cash checkbox is empty
C24_Witness ==
    /\ entry = "main"
    /\ script = "app.py"
    /\ pc = "done"
    /\ template.LineItems
    /\ ~template.BillingSummary
    /\ payment_method = "Cash"
    /\ template.checkboxes["Cash Check"] = ""
    /\ checkboxes["Cash Check"] = Tick
    /\ outcome = "generation_error"
    /\ doc = NoDoc

\* the payment methods and the names of their checkbox shapes
MethodShapes ==
    {<<"Cash", "Cash Check">>, <<"NEFT / IMPS", "NEFT Check">>,
     <<"UPI", "UPI Check">>, <<"Cheque", "Cheque Check">>}

\* C25: for each of the payment methods Cash, NEFT / IMPS, UPI and Cheque,
\* once generate_filled_invoice of app.py has run, the checkbox shape of the
\* selected method carries the tick and the other three have the empty
\* text, so exactly one of the four is ticked
C25_OneTick ==
    (/\ entry = "main"
     /\ script = "app.py"
     /\ pc = "done"
     /\ outcome \in {"document", "generation_error"}) =>
        /\ \E ms \in MethodShapes : ms[1] = payment_method
        /\ \A ms \in MethodShapes :
              checkboxes[ms[2]] = IF ms[1] = payment_method THEN Tick ELSE ""
        /\ Cardinality({n \in DOMAIN checkboxes : checkboxes[n] = Tick}) = 1

\* the template has the tick in the UPI checkbox and Cheque is selected
C25_Witness ==
    /\ entry = "main"
    /\ script = "app.py"
    /\ outcome = "document"
    /\ payment_method = "Cheque"
    /\ template.checkboxes["UPI Check"] = Tick
    /\ checkboxes["UPI Check"] = ""
    /\ checkboxes["Cheque Check"] = Tick

--------------------------------------------------------------------------
\* The login

\* C26: in app.py the form, the validation and the generation are reached
\* only with st.session_state["authenticated"] true; the flag becomes true
\* only by a Login click with the entered PIN equal to CORRECT_PIN, and once
\* true it stays true for the rest of the session
C26_LoginGate ==
    /\ []((entry = "main" /\ script = "app.py" /\ pc # "login") => authenticated)
    /\ [][(~authenticated /\ authenticated') =>
              (pc = "login" /\ pin = CORRECT_PIN /\ ClickLogin)]_vars
    /\ [][authenticated => authenticated']_vars

\* a document generated in a session that logged in with the PIN
C26_Witness ==
    /\ entry = "main"
    /\ script = "app.py"
    /\ authenticated
    /\ pin = CORRECT_PIN
    /\ outcome = "document"
    /\ rows[1].Rate = Num(FALSE, 230)

============================================================================
